---- MODULE Spec2Model ----
(***************************************************************************)
(* Model of PingerchipsProvider (src/src/lib/provider.ts): one session     *)
(* that keeps a Y.Doc and an Awareness instance in step with a pusher      *)
(* channel and a DocumentStore.                                            *)
(*                                                                         *)
(* A Y.Doc is modelled by the set of edits it has integrated, an update    *)
(* (delta or full state) by the set of edits it carries; merging is set    *)
(* union.  The Awareness map is modelled by the set of client ids that     *)
(* hold a state.  Every handler is an operator from the session record     *)
(* before the call to the session record after it.  Two fields of that     *)
(* record are not state of the session but the result of the call: `out`,  *)
(* the sequence of observable effects of the handler (signals emitted,     *)
(* channel.trigger calls, store calls) and `thrown`, whether it threw.     *)
(***************************************************************************)
EXTENDS Integers, Sequences, FiniteSets, TLC

\* session[s] is the session object of peer s, wire the client-message events
\* in flight between two sessions, made the edits the callers have made.
VARIABLES session, wire, made

vars == <<session, wire, made>>

----------------------------------------------------------------------------
(* Bounds of the model *)

MaxEdits == 2
MaxClients == 2
MaxVersion == 1
MaxPendingGet == 2
MaxDestroyCalls == 2
MaxInFlight == 1
MaxResyncInterval == 3001

(* Program constants *)

ResyncFloor == 3000
DefaultResync == 5000
AuthDenied == 403

Edits == 1..MaxEdits
Clients == 1..MaxClients
MainPeers == {1}
PairPeers == {1, 2}

\* doc.clientID of the session held by peer s
clientID(s) == s

----------------------------------------------------------------------------
(* Values exchanged with the collaborators *)

\* A Uint8Array holding a Yjs update: kind "update" decodes to the edits upd,
\* kind "zero" is a zero-length array and kind "garbage" undecodable bytes
\* (Y.applyUpdate throws on both); kind "null" is a store that resolves to
\* null/undefined instead of bytes.
Bytes(S) == [kind |-> "update", upd |-> S]
ZeroBytes == [kind |-> "zero", upd |-> {}]
Garbage == [kind |-> "garbage", upd |-> {}]
NullData == [kind |-> "null", upd |-> {}]

Updates == {Bytes(S) : S \in SUBSET Edits}
Messages == Updates \cup {Garbage}
StoreData == Updates \cup {ZeroBytes, NullData}

\* An encoded awareness update: the clients it sets a state for and the
\* clients it reports as removed (state null).
AwarenessUpdates ==
    {u \in [set : SUBSET Clients, del : SUBSET Clients] : u.set \cap u.del = {}}

\* config.resyncInterval?: number | false
Undefined == [kind |-> "undefined", n |-> 0]
False == [kind |-> "false", n |-> 0]
Number(k) == [kind |-> "number", n |-> k]
ResyncConfigs == {Undefined, False} \cup {Number(k) : k \in 0..MaxResyncInterval}

\* Function objects that can sit in an observer list: the prototype method
\* and the fresh function that .bind(this) returns are different objects.
OnDocumentUpdateMethod == "onDocumentUpdate"
OnDocumentUpdateBound == "onDocumentUpdate.bind(this)"
OnAwarenessUpdateMethod == "onAwarenessUpdate"
OnAwarenessUpdateBound == "onAwarenessUpdate.bind(this)"

\* The text put on the wire and its decoding
fromUint8Array(u) == [b64 |-> u]
fromBase64(d) == d.b64

Y_encodeStateAsUpdate(d) == Bytes(d)

----------------------------------------------------------------------------
(* Observable effects *)

Ev(e, d) == [ev |-> e, data |-> d]
Log(self, e, d) == [self EXCEPT !.out = Append(@, Ev(e, d))]

Has(o, e, d) == \E i \in DOMAIN o : o[i].ev = e /\ o[i].data = d
Count(o, e) == Cardinality({i \in DOMAIN o : o[i].ev = e})
Pos(o, e) == {i \in DOMAIN o : o[i].ev = e}

----------------------------------------------------------------------------
(* EventEmitter: the session's own listeners and the signals it emits *)

\* channel.trigger(event, data)
trigger(self, event, data) == Log(self, event, data)

\* this.on('message', (update) => { if (this.channel) channel.trigger(...) })
messageListener(self, update) ==
    IF self.channel
    THEN trigger(self, "trigger:client-message", fromUint8Array(update))
    ELSE self

\* this.on('awareness', (update) => { if (this.channel) channel.trigger(...) })
awarenessListener(self, update) ==
    IF self.channel
    THEN trigger(self, "trigger:client-awareness", fromUint8Array(update))
    ELSE self

emitMessage(self, update) ==
    messageListener(Log(self, "emit:message", update), update)

emitAwareness(self, update) ==
    awarenessListener(Log(self, "emit:awareness", update), update)

\* emit('error', arg): an EventEmitter with no 'error' listener throws.
emitError(self, arg) ==
    IF self.errorListeners
    THEN Log(self, "emit:error", arg)
    ELSE [Log(self, "throw", "Unhandled error") EXCEPT !.thrown = TRUE]

----------------------------------------------------------------------------
(* Fields and small methods *)

isOnline(self) == self.connected

isOnlineSet(self, online) == [self EXCEPT !.connected = online]

\* set synced(state)
syncedSet(self, state) ==
    IF self._synced # state
    THEN Log(Log([self EXCEPT !._synced = state], "emit:synced", state),
             "emit:sync", state)
    ELSE self

----------------------------------------------------------------------------
(* Presence *)

\* awarenessProtocol.encodeAwarenessUpdate(awareness, clients): a client
\* without a state is encoded with state null.
encodeAwarenessUpdate(states, clients) ==
    [set |-> clients \cap states, del |-> clients \ states]

onAwarenessUpdate(self, changes, origin) ==
    LET changedClients == changes.added \cup changes.updated \cup changes.removed
        awarenessUpdate == encodeAwarenessUpdate(self.awareness, changedClients)
    IN  emitAwareness(self, awarenessUpdate)

\* The Awareness instance calls the observers of its 'update' event.
awarenessEmitUpdate(self, changes, origin) ==
    IF OnAwarenessUpdateBound \in self.awarenessObservers
    THEN onAwarenessUpdate(self, changes, origin)
    ELSE self

\* awarenessProtocol.removeAwarenessStates(awareness, clients, origin)
removeAwarenessStates(self, clients, origin) ==
    LET removed == clients \cap self.awareness
        s1 == [self EXCEPT !.awareness = @ \ clients]
    IN  IF removed # {}
        THEN awarenessEmitUpdate(s1,
                 [added |-> {}, updated |-> {}, removed |-> removed], origin)
        ELSE s1

\* awarenessProtocol.applyAwarenessUpdate(awareness, update, origin): a
\* remote null state for the local client does not delete the local state.
applyAwarenessUpdate(self, update, origin) ==
    LET prev == self.awareness
        dels == update.del \ update.set
        keep == IF self.id \in prev THEN {self.id} ELSE {}
        s1 == [self EXCEPT !.awareness = (@ \ (dels \ keep)) \cup update.set]
        added == update.set \ prev
        updated == update.set \cap prev
        removed == dels \cap prev
    IN  IF added \cup updated \cup removed # {}
        THEN awarenessEmitUpdate(s1,
                 [added |-> added, updated |-> updated, removed |-> removed],
                 origin)
        ELSE s1

onAwareness(self, message) == applyAwarenessUpdate(self, message, "this")

\* awareness.setLocalState(state) by the caller; present = (state !== null).
\* The 'update' event is emitted with origin 'local' whatever changed.
setLocalState(self, present) ==
    LET had == self.id \in self.awareness
        s1 == [self EXCEPT !.awareness =
                  IF present THEN @ \cup {self.id} ELSE @ \ {self.id}]
        changes == [added |-> IF present /\ ~had THEN {self.id} ELSE {},
                    updated |-> IF present /\ had THEN {self.id} ELSE {},
                    removed |-> IF ~present /\ had THEN {self.id} ELSE {}]
    IN  awarenessEmitUpdate(s1, changes, "local")

----------------------------------------------------------------------------
(* Document sync *)

\* async save(): the snapshot is encoded and store.set is called before the
\* first await; the rest runs when the promise settles (saveResolved,
\* saveRejected).
save(self) ==
    LET content == Y_encodeStateAsUpdate(self.doc)
    IN  [Log(self, "store.set", content) EXCEPT !.pendingSet = @ + 1]

saveResolved(self) ==
    Log([self EXCEPT !.pendingSet = @ - 1], "emit:save", self.version)

\* Mutant: a failed store.set is treated as fatal, the session goes offline.
saveRejected_GoesOffline(self) ==
    LET s1 == emitError([self EXCEPT !.pendingSet = @ - 1], "error")
        s2 == isOnlineSet(s1, FALSE)
    IN  IF s2.thrown
        THEN Log(s2, "unhandledRejection", "save")
        ELSE Log(s2, "emit:save", s2.version)

saveRejected(self) ==
    LET s1 == emitError([self EXCEPT !.pendingSet = @ - 1], "error")
    IN  IF s1.thrown
        THEN Log(s1, "unhandledRejection", "save")
        ELSE Log(s1, "emit:save", s1.version)

\* Mutant: the origin is not compared with the session.
onDocumentUpdate_NoOriginCheck(self, update, origin) ==
    save(emitMessage(self, update))

onDocumentUpdate(self, update, origin) ==
    IF origin # "this"
    THEN save(emitMessage(self, update))
    ELSE self

\* The Y.Doc calls the observers of its 'update' event.
docEmitUpdate(self, update, origin) ==
    IF OnDocumentUpdateBound \in self.docObservers
    THEN onDocumentUpdate(self, update, origin)
    ELSE self

\* Y.applyUpdate(doc, update, origin) on decodable bytes: merge, and emit
\* 'update' with the part that was new when there is one.
Y_applyUpdate(self, update, origin) ==
    LET delta == update.upd \ self.doc
        s1 == [self EXCEPT !.doc = @ \cup update.upd]
    IN  IF delta = {} THEN s1 ELSE docEmitUpdate(s1, Bytes(delta), origin)

\* this.version++, counted up to MaxVersion: the value MaxVersion stands for
\* "MaxVersion or more".
Inc(v) == IF v < MaxVersion THEN v + 1 ELSE v

\* private applyUpdate(update, origin): Y.applyUpdate throws on bytes it
\* cannot decode, after version was incremented.
applyUpdate(self, update, origin) ==
    LET s1 == [self EXCEPT !.version = Inc(@)]
    IN  IF update.kind = "update"
        THEN Y_applyUpdate(s1, update, origin)
        ELSE [s1 EXCEPT !.thrown = TRUE]

\* try { ... } catch (err) { this.logger(err) }
caught(r) ==
    IF r.thrown THEN [Log(r, "logger", "error") EXCEPT !.thrown = FALSE] ELSE r

\* Mutant: the message is applied whatever the connection state.
onMessage_NoGate(self, message, origin) ==
    caught(applyUpdate(self, message, "this"))

onMessage(self, message, origin) ==
    IF ~isOnline(self)
    THEN self
    ELSE caught(applyUpdate(self, message, "this"))

\* A transaction of the caller on the shared Y.Doc that adds edit e.
localEdit(self, e) ==
    docEmitUpdate([self EXCEPT !.doc = @ \cup {e}], Bytes({e}), "caller")

\* Mutant: the tick announces an empty state instead of the document's.
resyncTick_EmptyState(self) ==
    LET s1 == emitMessage(self, Y_encodeStateAsUpdate({}))
    IN  IF s1.channel
        THEN trigger(s1, "trigger:client-message",
                     fromUint8Array(Y_encodeStateAsUpdate({})))
        ELSE s1

\* Mutant: the tick does nothing while the session is not online.
resyncTick_OnlineOnly(self) ==
    IF ~isOnline(self)
    THEN self
    ELSE LET s1 == emitMessage(self, Y_encodeStateAsUpdate(self.doc))
         IN  IF s1.channel
             THEN trigger(s1, "trigger:client-message",
                          fromUint8Array(Y_encodeStateAsUpdate(s1.doc)))
             ELSE s1

\* The setInterval callback of the constructor.
resyncTick(self) ==
    LET s1 == emitMessage(self, Y_encodeStateAsUpdate(self.doc))
    IN  IF s1.channel
        THEN trigger(s1, "trigger:client-message",
                     fromUint8Array(Y_encodeStateAsUpdate(s1.doc)))
        ELSE s1

----------------------------------------------------------------------------
(* Connection lifecycle *)

\* private async onConnect(), up to the await of store.get()
onConnect(self) ==
    [Log(self, "store.get", "pending") EXCEPT !.pendingGet = @ + 1]

\* onConnect() after store.get() resolved with data
onConnectResume(self, data) ==
    LET s0 == [self EXCEPT !.pendingGet = @ - 1]
        s1 == IF data.kind # "null"
              THEN caught(applyUpdate(s0, data, "undefined"))
              ELSE s0
        s2 == isOnlineSet(s1, TRUE)
        s3 == Log(s2, "emit:status", "connected")
    IN  IF s3.id \in s3.awareness
        THEN emitAwareness(s3, encodeAwarenessUpdate(s3.awareness, {s3.id}))
        ELSE s3

\* onConnect() when store.get() rejects: nothing catches it.
onConnectRejected(self) ==
    Log([self EXCEPT !.pendingGet = @ - 1], "unhandledRejection", "onConnect")

\* Mutant: the presence entries of the other participants are kept.
onDisconnect_KeepsPresence(self) ==
    isOnlineSet(syncedSet(self, FALSE), FALSE)

onDisconnect(self) ==
    LET s1 == syncedSet(self, FALSE)
        s2 == isOnlineSet(s1, FALSE)
        s3 == IF isOnline(s2) THEN Log(s2, "emit:status", "disconnected") ELSE s2
        states == s3.awareness \ {s3.id}
    IN  removeAwarenessStates(s3, states, "this")

emitConnect(self) == onConnect(Log(self, "emit:connect", "this"))

emitDisconnect(self) == onDisconnect(Log(self, "emit:disconnect", "this"))

\* channel.bind('pusher:error', ...)
pusherError(self) ==
    LET s1 == emitError(self, "this")
    IN  IF s1.thrown THEN s1 ELSE emitDisconnect(s1)

\* channel.bind('pusher:subscription_error', ...)
pusherSubscriptionError(self, status) ==
    IF status = AuthDenied
    THEN LET s1 == emitError(self, "this")
         IN  IF s1.thrown THEN s1 ELSE emitDisconnect(s1)
    ELSE self

\* channel.bind('pusher:subscription_succeeded', ...)
pusherSubscriptionSucceeded(self) == emitConnect(self)

\* channel.bind('client-message', ...)
clientMessage(self, data) == onMessage(self, fromBase64(data), "this")

\* channel.bind('client-awareness', ...)
clientAwareness(self, data) == onAwareness(self, fromBase64(data))

connect(self) == [Log(self, "pusher.subscribe", "channel") EXCEPT !.channel = TRUE]

disconnect(self) ==
    IF self.channel
    THEN [Log(self, "channel.disconnect", "channel") EXCEPT !.channel = FALSE]
    ELSE self

----------------------------------------------------------------------------
(* Construction and teardown *)

\* JavaScript truthiness of config.resyncInterval
Truthy(cfg) == cfg.kind = "number" /\ cfg.n # 0

\* The state of a session object before its constructor has run
Fresh(s) ==
    [id |-> clientID(s), phase |-> "new", config |-> Undefined,
     awareness |-> {}, connected |-> FALSE, channel |-> FALSE,
     _synced |-> FALSE, resyncInterval |-> FALSE, timer |-> 0, version |-> 0,
     doc |-> {}, docObservers |-> {}, awarenessObservers |-> {},
     errorListeners |-> FALSE, pendingGet |-> 0, pendingSet |-> 0,
     destroyCalls |-> 0, out |-> <<>>, thrown |-> FALSE]

constructor(self, cfg) ==
    LET s0 == [self EXCEPT !.awareness = {self.id}, !.config = cfg]
        period == IF Truthy(cfg) THEN cfg.n ELSE DefaultResync
        s1 == IF Truthy(cfg) \/ cfg.kind = "undefined"
              THEN IF Truthy(cfg) /\ cfg.n < ResyncFloor
                   THEN [Log(s0, "throw", "resync interval of less than 3 seconds")
                            EXCEPT !.thrown = TRUE]
                   ELSE [Log(s0, "setInterval", period)
                            EXCEPT !.resyncInterval = TRUE, !.timer = period]
              ELSE s0
    IN  IF s1.thrown
        THEN [s1 EXCEPT !.phase = "threw"]
        ELSE [connect(s1) EXCEPT
                 !.docObservers = @ \cup {OnDocumentUpdateBound},
                 !.awarenessObservers = @ \cup {OnAwarenessUpdateBound},
                 !.phase = "live"]

\* Mutant: the timer is not cleared.
destroy_NoClearInterval(self) ==
    LET s2 == [self EXCEPT
                 !.awarenessObservers = @ \ {OnAwarenessUpdateMethod},
                 !.docObservers = @ \ {OnDocumentUpdateMethod}]
    IN  IF s2.channel THEN disconnect(s2) ELSE s2

\* Mutant: this.channel.disconnect() is called without looking at the
\* handle, a TypeError once it is null.
destroy_NoChannelCheck(self) ==
    LET s1 == IF self.resyncInterval
              THEN [Log(self, "clearInterval", "resyncInterval") EXCEPT !.timer = 0]
              ELSE self
        s2 == [s1 EXCEPT
                 !.awarenessObservers = @ \ {OnAwarenessUpdateMethod},
                 !.docObservers = @ \ {OnDocumentUpdateMethod}]
    IN  IF s2.channel
        THEN [Log(s2, "channel.disconnect", "channel") EXCEPT !.channel = FALSE]
        ELSE [Log(s2, "throw", "TypeError") EXCEPT !.thrown = TRUE]

destroy(self) ==
    LET s1 == IF self.resyncInterval
              THEN [Log(self, "clearInterval", "resyncInterval") EXCEPT !.timer = 0]
              ELSE self
        s2 == [s1 EXCEPT
                 !.awarenessObservers = @ \ {OnAwarenessUpdateMethod},
                 !.docObservers = @ \ {OnDocumentUpdateMethod}]
    IN  IF s2.channel THEN disconnect(s2) ELSE s2

----------------------------------------------------------------------------
(* The state machine *)

\* The session of peer s as a record, at the start of a handler
Self(s) == session[s]

\* The session state of a handler's result, without the effects of the call
StateOf(r) == [r EXCEPT !.out = <<>>, !.thrown = FALSE]

\* The session of peer s becomes r
Assign(s, r) == session' = [session EXCEPT ![s] = StateOf(r)]

\* The sessions are the records R[s]
StateIs(R) == session = [s \in DOMAIN R |-> StateOf(R[s])]

Live(s) == session[s].phase = "live"


\* new PingerchipsProvider(doc, pusher, config)
Construct(s, cfg) ==
    /\ session[s].phase = "new"
    /\ Assign(s, constructor(Self(s), cfg))
    /\ UNCHANGED <<wire, made>>

\* The transport reports pusher:subscription_succeeded
SubscriptionSucceeded(s) ==
    /\ Live(s)
    /\ session[s].pendingGet < MaxPendingGet
    /\ Assign(s, pusherSubscriptionSucceeded(Self(s)))
    /\ UNCHANGED <<wire, made>>

\* store.get() of a suspended onConnect resolves with data
GetResolved(s, data) ==
    /\ Live(s)
    /\ session[s].pendingGet > 0
    /\ Assign(s, onConnectResume(Self(s), data))
    /\ UNCHANGED <<wire, made>>

\* store.get() of a suspended onConnect rejects
GetRejected(s) ==
    /\ Live(s)
    /\ session[s].pendingGet > 0
    /\ Assign(s, onConnectRejected(Self(s)))
    /\ UNCHANGED <<wire, made>>

\* The transport reports pusher:error
PusherError(s) ==
    /\ Live(s)
    /\ Assign(s, pusherError(Self(s)))
    /\ UNCHANGED <<wire, made>>

\* The transport reports pusher:subscription_error with a status
SubscriptionError(s, status) ==
    /\ Live(s)
    /\ Assign(s, pusherSubscriptionError(Self(s), status))
    /\ UNCHANGED <<wire, made>>

\* The channel delivers a client-message event carrying message m
ChannelMessage(s, m) ==
    /\ Live(s)
    /\ Assign(s, clientMessage(Self(s), fromUint8Array(m)))
    /\ UNCHANGED <<wire, made>>

\* The channel delivers a client-awareness event carrying update m
ChannelAwareness(s, m) ==
    /\ Live(s)
    /\ Assign(s, clientAwareness(Self(s), fromUint8Array(m)))
    /\ UNCHANGED <<wire, made>>

\* The caller edits the document: an edit the document does not hold yet
LocalEdit(s, e) ==
    /\ Live(s)
    /\ e \notin session[s].doc
    /\ Assign(s, localEdit(Self(s), e))
    /\ UNCHANGED <<wire, made>>

\* The caller sets or clears the local presence state
LocalPresence(s, present) ==
    /\ Live(s)
    /\ Assign(s, setLocalState(Self(s), present))
    /\ UNCHANGED <<wire, made>>

\* The resync timer fires
Tick(s) ==
    /\ Live(s)
    /\ session[s].timer # 0
    /\ Assign(s, resyncTick(Self(s)))
    /\ UNCHANGED <<wire, made>>

\* store.set() of a suspended save resolves
SetResolved(s) ==
    /\ Live(s)
    /\ session[s].pendingSet > 0
    /\ Assign(s, saveResolved(Self(s)))
    /\ UNCHANGED <<wire, made>>

\* store.set() of a suspended save rejects
SetRejected(s) ==
    /\ Live(s)
    /\ session[s].pendingSet > 0
    /\ Assign(s, saveRejected(Self(s)))
    /\ UNCHANGED <<wire, made>>

\* The caller calls destroy(); destroyCalls counts the calls made.
Destroy(s) ==
    /\ Live(s)
    /\ session[s].destroyCalls < MaxDestroyCalls
    /\ Assign(s, [destroy(Self(s)) EXCEPT !.destroyCalls = @ + 1])
    /\ UNCHANGED <<wire, made>>

\* The caller assigns provider.synced
SetSynced(s, state) ==
    /\ Live(s)
    /\ Assign(s, syncedSet(Self(s), state))
    /\ UNCHANGED <<wire, made>>

\* The caller registers (on) or removes (off) its listener of 'error'
OnError(s, listening) ==
    /\ Live(s)
    /\ session[s].errorListeners # listening
    /\ Assign(s, [Self(s) EXCEPT !.errorListeners = listening])
    /\ UNCHANGED <<wire, made>>

\* One session, constructed with the default resync timer or with none,
\* against an arbitrary transport, store and caller.
Init ==
    /\ \E cfg \in {Undefined, False} :
          StateIs([s \in MainPeers |-> constructor(Fresh(s), cfg)])
    /\ wire = {}
    /\ made = {}

Next ==
    \E s \in MainPeers :
        \/ SubscriptionSucceeded(s)
        \/ \E data \in StoreData : GetResolved(s, data)
        \/ GetRejected(s)
        \/ PusherError(s)
        \/ \E status \in {AuthDenied, AuthDenied + 1} : SubscriptionError(s, status)
        \/ \E m \in Messages : ChannelMessage(s, m)
        \/ \E m \in AwarenessUpdates : ChannelAwareness(s, m)
        \/ \E e \in Edits : LocalEdit(s, e)
        \/ \E present \in BOOLEAN : LocalPresence(s, present)
        \/ Tick(s)
        \/ SetResolved(s)
        \/ SetRejected(s)
        \/ Destroy(s)
        \/ \E state \in BOOLEAN : SetSynced(s, state)
        \/ \E listening \in BOOLEAN : OnError(s, listening)

Spec == Init /\ [][Next]_vars

----------------------------------------------------------------------------
(* Construction alone: every value of config.resyncInterval *)

CtorInit ==
    /\ StateIs([s \in MainPeers |-> Fresh(s)])
    /\ wire = {}
    /\ made = {}

CtorNext == \E s \in MainPeers, cfg \in ResyncConfigs : Construct(s, cfg)

CtorSpec == CtorInit /\ [][CtorNext]_vars

----------------------------------------------------------------------------
(* Two sessions on one channel that may lose document messages.  Both are  *)
(* online with the default resync timer; `wire` holds the client-message   *)
(* events in flight, `made` the edits made so far by either caller.        *)

\* A session after construction, subscription success and an empty store
OnlineSession(s) ==
    StateOf(onConnectResume(
                pusherSubscriptionSucceeded(constructor(Fresh(s), Undefined)),
                NullData))

\* What the channel carries to the other peers after a handler of peer s
Transmit(s, r) ==
    {[to |-> t, data |-> r.out[i].data] :
        t \in PairPeers \ {s}, i \in Pos(r.out, "trigger:client-message")}

WireMessages ==
    [to : PairPeers, data : {fromUint8Array(u) : u \in Updates}]

\* The channel holds at most MaxInFlight events per receiver: what is
\* published for a receiver whose share is full is lost.
Send(w, msgs) ==
    w \cup {m \in msgs : Cardinality({x \in w : x.to = m.to}) < MaxInFlight}

PairEdit(s, e) ==
    /\ e \notin made
    /\ LET r == localEdit(Self(s), e)
       IN  Assign(s, r) /\ wire' = Send(wire, Transmit(s, r))
    /\ made' = made \cup {e}

PairTick(s) ==
    /\ session[s].timer # 0
    /\ LET r == resyncTick(Self(s))
       IN  Assign(s, r) /\ wire' = Send(wire, Transmit(s, r))
    /\ UNCHANGED made

PairDeliver(msg) ==
    /\ msg \in wire
    /\ Assign(msg.to, clientMessage(Self(msg.to), msg.data))
    /\ wire' = wire \ {msg}
    /\ UNCHANGED made

PairDrop(msg) ==
    /\ msg \in wire
    /\ wire' = wire \ {msg}
    /\ UNCHANGED <<session, made>>

PairInit ==
    /\ StateIs([s \in PairPeers |-> OnlineSession(s)])
    /\ wire = {}
    /\ made = {}

PairNext ==
    \/ \E s \in PairPeers, e \in Edits : PairEdit(s, e)
    \/ \E s \in PairPeers : PairTick(s)
    \/ \E msg \in WireMessages : PairDeliver(msg)
    \/ \E msg \in WireMessages : PairDrop(msg)

\* Some message in flight to peer s is delivered
DeliverTo(s) == \E msg \in WireMessages : msg.to = s /\ PairDeliver(msg)

\* setInterval keeps firing, and a peer that is sent messages again and again
\* does not lose every one of them.
PairFairness ==
    /\ \A s \in PairPeers : WF_vars(PairTick(s))
    /\ \A s \in PairPeers : SF_vars(DeliverTo(s))

PairSpec == PairInit /\ [][PairNext]_vars /\ PairFairness

----------------------------------------------------------------------------
(* One session whose transport and store work: the subscription succeeds,  *)
(* every store call resolves, no channel error is reported, the caller     *)
(* never assigns provider.synced and never calls destroy().                *)

SyncNext ==
    \E s \in MainPeers :
        \/ SubscriptionSucceeded(s)
        \/ \E data \in StoreData : GetResolved(s, data)
        \/ \E m \in Messages : ChannelMessage(s, m)
        \/ \E m \in AwarenessUpdates : ChannelAwareness(s, m)
        \/ \E e \in Edits : LocalEdit(s, e)
        \/ \E present \in BOOLEAN : LocalPresence(s, present)
        \/ Tick(s)
        \/ SetResolved(s)

\* A pending store promise settles and setInterval keeps firing.
SyncFairness ==
    \A s \in MainPeers :
        /\ WF_vars(\E data \in StoreData : GetResolved(s, data))
        /\ WF_vars(SetResolved(s))
        /\ WF_vars(Tick(s))

SyncSpec == Init /\ [][SyncNext]_vars /\ SyncFairness

----------------------------------------------------------------------------
(* Properties.  A property of a handler is stated in every reachable state *)
(* for every input: the handler is applied to the session as it is there.  *)

Peers == DOMAIN session

\* C1: echo suppression.  In every state, for every remote document message,
\* handling the client-message event publishes nothing on 'client-message'
\* (and emits no 'message' signal), so the number of publishes is the same
\* before and after any number of remote applies.
C1_EchoSuppression ==
    \A s \in Peers : Live(s) =>
        \A m \in Messages :
            LET r == clientMessage(Self(s), fromUint8Array(m))
            IN  /\ Count(r.out, "trigger:client-message") = 0
                /\ Count(r.out, "emit:message") = 0

\* C1 witness: an online session with its channel and its document listener,
\* which has applied updates before and can be sent one that changes the
\* document.
C1_Witness ==
    /\ Live(1) /\ session[1].connected /\ session[1].channel
    /\ OnDocumentUpdateBound \in session[1].docObservers
    /\ session[1].version = MaxVersion
    /\ \E m \in Updates :
          clientMessage(Self(1), fromUint8Array(m)).doc # session[1].doc

\* C2 (as claimed): while the session is online, every local edit causes
\* exactly one publish of the edit's delta on 'client-message' and exactly
\* one store.set call carrying the full snapshot.
C2_LocalEditPublishesOnce ==
    \A s \in Peers : Live(s) /\ session[s].connected =>
        \A e \in Edits \ session[s].doc :
            LET r == localEdit(Self(s), e)
            IN  /\ Count(r.out, "trigger:client-message") = 1
                /\ Has(r.out, "trigger:client-message", fromUint8Array(Bytes({e})))
                /\ Count(r.out, "store.set") = 1
                /\ Has(r.out, "store.set", Bytes(session[s].doc \cup {e}))

\* C3: offline discard.  While the session is not online, handling a
\* client-message event changes nothing at all: the document, the apply
\* counter and every other field are as before and nothing is emitted, so no
\* trace of the message is left from which it could be applied later.
C3_OfflineDiscard ==
    \A s \in Peers : Live(s) /\ ~session[s].connected =>
        \A m \in Messages :
            clientMessage(Self(s), fromUint8Array(m)) = Self(s)

\* C3 witness: a session that is not online while a store fetch is in flight,
\* that has applied updates before, and that is sent an update with edits its
\* document does not hold.
C3_Witness ==
    /\ Live(1) /\ ~session[1].connected
    /\ session[1].pendingGet > 0 /\ session[1].version > 0
    /\ \E m \in Updates : ~(m.upd \subseteq session[1].doc)

\* C5 (as claimed): a numeric resync period p with 0 <= p < 3000 makes the
\* constructor throw, with no timer armed and no channel subscribed; with
\* p >= 3000 construction succeeds with a timer of period p.
C5_ResyncFloor ==
    \A s \in Peers : session[s].phase # "new" /\ session[s].config.kind = "number" =>
        /\ session[s].config.n < ResyncFloor =>
              /\ session[s].phase = "threw"
              /\ session[s].timer = 0
              /\ ~session[s].channel
        /\ session[s].config.n >= ResyncFloor =>
              session[s].phase = "live" /\ session[s].timer = session[s].config.n

\* C6: a session constructed with a resync period (configured or defaulted)
\* has its timer armed until destroy() is called, and whenever the timer can
\* fire, the tick emits the full current document state on the 'message'
\* signal and publishes it on 'client-message', whatever the connection state
\* and whatever edits were made.
C6_TickPublishesFullState ==
    \A s \in Peers : Live(s) =>
        /\ session[s].resyncInterval /\ session[s].destroyCalls = 0 =>
              session[s].timer # 0
        /\ session[s].timer # 0 =>
              LET r == resyncTick(Self(s))
                  full == Y_encodeStateAsUpdate(session[s].doc)
              IN  /\ Has(r.out, "emit:message", full)
                  /\ Has(r.out, "trigger:client-message", fromUint8Array(full))

\* C6 witness: an armed timer on a session that is not online, holds a
\* non-empty document and has no save in flight.
C6_Witness ==
    /\ Live(1) /\ session[1].timer # 0 /\ ~session[1].connected
    /\ session[1].doc = Edits /\ session[1].pendingSet = 0 /\ session[1].version > 0

C8_DetachedAfterDestroy ==
    \A s \in Peers : Live(s) /\ session[s].destroyCalls > 0 =>
        /\ \A e \in Edits \ session[s].doc :
              LET r == localEdit(Self(s), e)
              IN  Count(r.out, "emit:message") = 0 /\ Count(r.out, "store.set") = 0
        /\ \A present \in BOOLEAN :
              Count(setLocalState(Self(s), present).out, "emit:awareness") = 0

\* C9: no leaked timer.  Once destroy() has been called the timer is not
\* scheduled and no resync tick can run.
C9_NoLeakedTimer ==
    \A s \in Peers : session[s].destroyCalls > 0 =>
        session[s].timer = 0 /\ ~ENABLED Tick(s)

\* C9 witness: a destroyed session that had a timer armed.
C9_Witness ==
    /\ Live(1) /\ session[1].destroyCalls > 0
    /\ session[1].resyncInterval /\ session[1].connected

\* C10: teardown is idempotent.  A destroy() call on a session that was
\* destroyed before does not throw and leaves every field of the session as
\* it was.
C10_DestroyIdempotent ==
    \A s \in Peers : Live(s) /\ session[s].destroyCalls >= 1 =>
        LET r == destroy(Self(s))
        IN  ~r.thrown /\ StateOf(r) = Self(s)

\* C10 witness: a session on which destroy() ran twice, the first time after
\* it had been online.
C10_Witness ==
    /\ Live(1) /\ session[1].destroyCalls >= 2
    /\ session[1].version > 0 /\ session[1].resyncInterval

\* C4: resync heals missed deltas.  Two online sessions with resync timers
\* on a channel that may lose messages: under fair ticks and fair delivery,
\* from some point on both documents are equal and hold every edit made by
\* either peer.
Converged == \A s \in Peers : session[s].doc = made

C4_ResyncConverges == <>[]Converged

\* C4 witness: both peers have edited, the documents differ and no message is
\* in flight (what was published has been lost); only a resync can heal it.
C4_Witness ==
    /\ Peers = PairPeers
    /\ made = Edits /\ wire = {}
    /\ session[1].doc # {} /\ session[2].doc # {} /\ session[1].doc # session[2].doc

\* C11 (as claimed): after destroy(), from whatever state it was called, the
\* session is not online, and no later step makes it online.
C11_OfflineAfterDestroy ==
    \A s \in Peers : Live(s) /\ session[s].destroyCalls > 0 =>
        ~isOnline(Self(s))

\* C12 (as claimed): once connect reconciliation has completed (the session
\* is online), with no disconnect, no destroy() and no assignment of synced
\* by the caller, syncState eventually becomes true.
C12_EventuallySynced == session[1].connected ~> session[1]._synced

\* C13 (as claimed): when store.get() rejects during connect reconciliation,
\* nothing is left unhandled, the session is marked online and the 'status'
\* signal carrying 'connected' is emitted.
C13_GetFailureTolerated ==
    \A s \in Peers : Live(s) /\ session[s].pendingGet > 0 =>
        LET r == onConnectRejected(Self(s))
        IN  /\ Count(r.out, "unhandledRejection") = 0
            /\ isOnline(r)
            /\ Has(r.out, "emit:status", "connected")

\* C14 (as claimed): when store.get() resolves with an empty snapshot (no
\* bytes, or nothing at all) and no local presence state is set,
\* reconciliation leaves the document and the apply counter unchanged, marks
\* the session online, emits status 'connected' and publishes nothing on
\* 'client-awareness'.
C14_EmptyStoreConnect ==
    \A s \in Peers :
        /\ Live(s) /\ session[s].pendingGet > 0
        /\ clientID(s) \notin session[s].awareness
        => \A data \in {ZeroBytes, NullData} :
               LET r == onConnectResume(Self(s), data)
               IN  /\ r.doc = session[s].doc
                   /\ r.version = session[s].version
                   /\ isOnline(r)
                   /\ Has(r.out, "emit:status", "connected")
                   /\ Count(r.out, "trigger:client-awareness") = 0

\* C15 (as claimed): with one store fetch of connect reconciliation in
\* flight, whichever of the fetch's completion and a pusher:error comes
\* first, once the error has been reported on the 'error' signal and both
\* have run, the session is not online and syncState is false.
C15_ErrorEndsOffline ==
    \A s \in Peers : Live(s) /\ session[s].pendingGet = 1 =>
        \A data \in StoreData :
            LET fetchThenError ==
                    pusherError(StateOf(onConnectResume(Self(s), data)))
                error == pusherError(Self(s))
                errorThenFetch == onConnectResume(StateOf(error), data)
            IN  /\ Has(fetchThenError.out, "emit:error", "this") =>
                       ~isOnline(fetchThenError) /\ ~fetchThenError._synced
                /\ Has(error.out, "emit:error", "this") =>
                       ~isOnline(errorThenFetch) /\ ~errorThenFetch._synced

\* C16 (as claimed): the eviction of the other participants' presence
\* entries when a Connected session disconnects publishes nothing on
\* 'client-awareness'.
C16_EvictionIsLocal ==
    \A s \in Peers : Live(s) /\ session[s].connected =>
        Count(onDisconnect(Self(s)).out, "trigger:client-awareness") = 0

\* C17 (as claimed): handling a client-awareness event from the channel
\* publishes nothing on 'client-awareness', whatever the update carries.
C17_NoPresenceEcho ==
    \A s \in Peers : Live(s) =>
        \A m \in AwarenessUpdates :
            Count(clientAwareness(Self(s), fromUint8Array(m)).out,
                  "trigger:client-awareness") = 0

\* C18 (as claimed): with an observer listening on 'error', a
\* pusher:subscription_error with status 403 and a pusher:error each emit
\* 'error' and then 'disconnect', and what 'error' carries for the
\* authorization failure differs from what it carries for the channel error.
C18_AuthErrorDistinguished ==
    \A s \in Peers : Live(s) /\ session[s].errorListeners =>
        LET auth == pusherSubscriptionError(Self(s), AuthDenied).out
            generic == pusherError(Self(s)).out
        IN  /\ \A o \in {auth, generic} :
                   \E i \in Pos(o, "emit:error"), j \in Pos(o, "emit:disconnect") :
                       i < j
            /\ \A i \in Pos(auth, "emit:error"), j \in Pos(generic, "emit:error") :
                   auth[i].data # generic[j].data

C20_OnePublishPerEvent ==
    \A s \in Peers : Live(s) =>
        /\ \A e \in Edits \ session[s].doc :
              Count(localEdit(Self(s), e).out, "trigger:client-message") <= 1
        /\ session[s].timer # 0 =>
              Count(resyncTick(Self(s)).out, "trigger:client-message") <= 1
        /\ \A present \in BOOLEAN :
              Count(setLocalState(Self(s), present).out,
                    "trigger:client-awareness") <= 1

====
